---- MODULE Spec2Model ----
(***************************************************************************)
(* Reputation scoring and policy routing engine of MCP-Reputation-Policy:  *)
(* RepScoreService (src/src/repservice.py), RepDataStore                   *)
(* (src/src/datastore.py), RepScoreConfig / ServerCatalog                  *)
(* (src/src/config.py) and MCP_Client (src/mcp.py).                        *)
(*                                                                         *)
(* Python floats are modelled as exact rationals <<n, d>> in lowest terms  *)
(* (d > 0).  Time is in whole seconds.                                     *)
(***************************************************************************)
EXTENDS Integers, Sequences, FiniteSets, TLC

(***************************************************************************)
(* Exact rational arithmetic standing for float arithmetic.                *)
(***************************************************************************)
Abs(x) == IF x < 0 THEN -x ELSE x

RECURSIVE GCD(_, _)
GCD(a, b) == IF b = 0 THEN a ELSE GCD(b, a % b)

LCM(a, b) == (a \div GCD(a, b)) * b

\* the rational n/d (d # 0) in lowest terms with a positive denominator
Norm(n, d) ==
    LET g == GCD(Abs(n), Abs(d))
        s == IF d < 0 THEN -1 ELSE 1
    IN  << (s * n) \div g, (s * d) \div g >>

Whole(n) == << n, 1 >>

\* decimal literals: Dec4(8500) is 0.8500, Dec3(5) is 0.005
Dec4(n) == Norm(n, 10000)

Dec3(n) == Norm(n, 1000)

RAdd(a, b) ==
    LET l == LCM(a[2], b[2])
    IN  Norm(a[1] * (l \div a[2]) + b[1] * (l \div b[2]), l)

RNeg(a) == << -a[1], a[2] >>

RSub(a, b) == RAdd(a, RNeg(b))

RMul(a, b) ==
    LET g1 == GCD(Abs(a[1]), b[2])
        g2 == GCD(Abs(b[1]), a[2])
    IN  Norm((a[1] \div g1) * (b[1] \div g2), (a[2] \div g2) * (b[2] \div g1))

\* a / b for b # 0
RDiv(a, b) == RMul(a, Norm(b[2], b[1]))

RLt(a, b) ==
    LET l == LCM(a[2], b[2])
    IN  a[1] * (l \div a[2]) < b[1] * (l \div b[2])

RLe(a, b) == ~RLt(b, a)

\* Python's min(a, b) and max(a, b): the first argument wins unless the
\* second is strictly smaller (larger)
RMin(a, b) == IF RLt(b, a) THEN b ELSE a

RMax(a, b) == IF RLt(a, b) THEN b ELSE a

RAbs(a) == << Abs(a[1]), a[2] >>

\* Python's round(x, 4): the values it can return for a float that stands
\* for x.  It is the nearest multiple of 0.0001; when x is exactly half way
\* between two multiples the float lies a rounding error to one side or the
\* other, and either neighbour can come out.
round4(x) ==
    LET y == RMul(x, Whole(10000))
        q == y[1] \div y[2]
        r == y[1] % y[2]
    IN  IF 2 * r < y[2] THEN { Dec4(q) }
        ELSE IF 2 * r > y[2] THEN { Dec4(q + 1) }
        ELSE { Dec4(q), Dec4(q + 1) }

RECURSIVE PowHalfInt(_)
PowHalfInt(k) == IF k = 0 THEN Whole(1) ELSE RMul(Norm(1, 2), PowHalfInt(k - 1))

\* pow(0.5, periods) for a whole number of periods, the only exponents the
\* model's clock produces
pow_half(periods) == PowHalfInt(periods[1] \div periods[2])

(***************************************************************************)
(* config.py: enums, RepScoreConfig, ServerCatalog                         *)
(***************************************************************************)
ToolType == {"MATH_COMPUTE", "DATA_RETRIEVAL", "REASONING", "IMAGE_GEN", "SEMANTIC_SEARCH"}

Status == {"SUCCESS", "ERROR", "TIMEOUT"}

WEIGHT_SATISFACTION == Dec4(4000)

WEIGHT_RELIABILITY == Dec4(3000)

WEIGHT_LATENCY_PENALTY == Dec4(2000)

WEIGHT_COST_EFFICIENCY == Dec4(1000)

MIN_REPUTATION_THRESHOLD == Dec4(7000)

ALPHA_SMOOTHING == Dec4(1000)

MAX_ACCEPTABLE_LATENCY == Dec4(8000)

COST_BENCHMARK == Dec3(5)

DEFAULT_INITIAL_SCORE == Dec4(5000)

REPUTATION_DECAY_HALF_LIFE_HOURS == 24

\* ServerCatalog.CATALOG in dict (insertion) order
CatalogOrder ==
    << "compute_server_1", "data_server_2", "low_score_server_3",
       "image_fast_4", "image_cheap_5", "semantic_db_6" >>

CatalogIds == { CatalogOrder[i] : i \in 1..Len(CatalogOrder) }

CATALOG ==
    [ s \in CatalogIds |->
        CASE s = "compute_server_1"   -> [tool_type |-> "MATH_COMPUTE",    cost_per_unit |-> Dec4(50)]
          [] s = "data_server_2"      -> [tool_type |-> "DATA_RETRIEVAL",  cost_per_unit |-> Dec4(10)]
          [] s = "low_score_server_3" -> [tool_type |-> "MATH_COMPUTE",    cost_per_unit |-> Dec4(5)]
          [] s = "image_fast_4"       -> [tool_type |-> "IMAGE_GEN",       cost_per_unit |-> Dec4(500)]
          [] s = "image_cheap_5"      -> [tool_type |-> "IMAGE_GEN",       cost_per_unit |-> Dec4(80)]
          [] s = "semantic_db_6"      -> [tool_type |-> "SEMANTIC_SEARCH", cost_per_unit |-> Dec4(30)] ]

\* a server id that is not in the catalog
UnknownId == "ghost_server_9"

None == "None"

(***************************************************************************)
(* State.                                                                  *)
(*   reputations : RepScoreService.reputations, a dict server id ->        *)
(*                 [score, last_update, interaction_count]                 *)
(*   store       : RepDataStore._data, server id -> its METADATA record    *)
(*                 (ids without a record are not in the domain)            *)
(*   now         : the clock, time.time(), in seconds                      *)
(*   last        : the most recent call, its arguments and what it gave    *)
(*                 back to its caller                                      *)
(*   initial     : the reputations table as __init__ left it               *)
(*   submitted   : per server, the submit_feedback calls completed         *)
(*   focus       : the capability this run's calls are about               *)
(*   clients     : per client thread inside submit_feedback, the line it   *)
(*                 is at and its local variables                           *)
(*   config      : the RepScoreConfig attributes the process started with  *)
(***************************************************************************)
VARIABLES reputations, store, now, last, initial, submitted, focus, clients, config

vars == << reputations, store, now, last, initial, submitted, focus, clients, config >>

(***************************************************************************)
(* repservice.py                                                           *)
(***************************************************************************)
half_life_seconds == REPUTATION_DECAY_HALF_LIFE_HOURS * 3600

\* decay applied to the whole score, not to its distance from the baseline
_apply_decay_whole(current_rep, last_update_time, t) ==
    LET time_elapsed == t - last_update_time
    IN  IF time_elapsed < 1
        THEN current_rep
        ELSE LET decay_periods == Norm(time_elapsed, half_life_seconds)
                 decay_factor == pow_half(decay_periods)
                 decayed_score == RMul(current_rep, decay_factor)
             IN  RMax(DEFAULT_INITIAL_SCORE, decayed_score)

\* _apply_decay(server_id, current_rep, last_update_time) at clock t
_apply_decay(current_rep, last_update_time, t) ==
    LET time_elapsed == t - last_update_time
    IN  IF time_elapsed < 1
        THEN current_rep
        ELSE LET decay_periods == Norm(time_elapsed, half_life_seconds)
                 decay_factor == pow_half(decay_periods)
                 score_differential == RSub(current_rep, DEFAULT_INITIAL_SCORE)
                 decayed_score == RAdd(DEFAULT_INITIAL_SCORE, RMul(score_differential, decay_factor))
             IN  RMax(DEFAULT_INITIAL_SCORE, decayed_score)

\* the read answering 0 for an id it does not know
get_reputation_value_zero(reps, server_id, t) ==
    IF server_id \notin DOMAIN reps
    THEN Whole(0)
    ELSE _apply_decay(reps[server_id].score, reps[server_id].last_update, t)

\* the value get_reputation(server_id) returns on table reps at clock t
get_reputation_value(reps, server_id, t) ==
    IF server_id \notin DOMAIN reps
    THEN DEFAULT_INITIAL_SCORE
    ELSE _apply_decay(reps[server_id].score, reps[server_id].last_update, t)

\* the read that never writes the decayed score back
get_reputation_table_stale(reps, server_id, t) == reps

\* the read refreshing last_update whether or not decay lowered the score
get_reputation_table_refresh(reps, server_id, t) ==
    IF server_id \notin DOMAIN reps
    THEN reps
    ELSE [reps EXCEPT ![server_id].score =
                          RMin(reps[server_id].score,
                               _apply_decay(reps[server_id].score, reps[server_id].last_update, t)),
                      ![server_id].last_update = t]

\* the table get_reputation(server_id) leaves behind
get_reputation_table(reps, server_id, t) ==
    IF server_id \notin DOMAIN reps
    THEN reps
    ELSE LET current_score == reps[server_id].score
             decayed_score == _apply_decay(current_score, reps[server_id].last_update, t)
         IN  IF RLt(decayed_score, current_score)
             THEN [reps EXCEPT ![server_id].score = decayed_score,
                               ![server_id].last_update = t]
             ELSE reps

RECURSIVE SumCost(_, _)
SumCost(i, tool_type) ==
    IF i = 0 THEN [total_cost |-> Whole(0), count |-> 0]
    ELSE LET rest == SumCost(i - 1, tool_type)
             data == CATALOG[CatalogOrder[i]]
         IN  IF data.tool_type = tool_type
             THEN [total_cost |-> RAdd(rest.total_cost, data.cost_per_unit),
                   count |-> rest.count + 1]
             ELSE rest

_get_avg_cost_for_tool(tool_type) ==
    LET acc == SumCost(Len(CatalogOrder), tool_type)
    IN  IF acc.count = 0
        THEN COST_BENCHMARK
        ELSE RDiv(acc.total_cost, Whole(acc.count))

\* the penalty branch without its floor at 0
cost_factor_unfloored(actual_unit_price, avg_market_unit_price) ==
    IF RLe(actual_unit_price, avg_market_unit_price)
    THEN Whole(1)
    ELSE RSub(Whole(1),
              RDiv(RSub(actual_unit_price, avg_market_unit_price),
                   avg_market_unit_price))

\* lines 143-148 of calculate_new_score: cost_factor from the server's unit
\* price and the market average of its tool type
cost_factor_of(actual_unit_price, avg_market_unit_price) ==
    IF RLe(actual_unit_price, avg_market_unit_price)
    THEN Whole(1)
    ELSE RMax(Whole(0),
              RSub(Whole(1),
                   RDiv(RSub(actual_unit_price, avg_market_unit_price),
                        avg_market_unit_price)))

\* calculate_new_score(current_score, log_entry) for a catalogued server_id,
\* up to the EMA update: new_score before it is clamped and rounded
ema_new_score(current_score, log_entry) ==
    LET outcome == log_entry.outcome_status
        latency == log_entry.latency_sec
        satisfaction == log_entry.client_satisfaction
        server_id == log_entry.server_id
        tool_type == CATALOG[server_id].tool_type
        actual_unit_price == CATALOG[server_id].cost_per_unit
        avg_market_unit_price == _get_avg_cost_for_tool(tool_type)
        reliability_factor == IF outcome = "SUCCESS" THEN Whole(1) ELSE Whole(0)
        latency_ratio == RMin(Whole(1), RDiv(latency, MAX_ACCEPTABLE_LATENCY))
        latency_factor == RSub(Whole(1), latency_ratio)
        cost_factor == cost_factor_of(actual_unit_price, avg_market_unit_price)
        clamped_satisfaction == RMax(Whole(0), RMin(Whole(1), satisfaction))
        WCS == RAdd(RAdd(RMul(WEIGHT_SATISFACTION, clamped_satisfaction),
                         RMul(WEIGHT_RELIABILITY, reliability_factor)),
                    RAdd(RMul(WEIGHT_LATENCY_PENALTY, latency_factor),
                         RMul(WEIGHT_COST_EFFICIENCY, cost_factor)))
        new_score == RAdd(RMul(ALPHA_SMOOTHING, WCS),
                          RMul(RSub(Whole(1), ALPHA_SMOOTHING), current_score))
    IN  new_score

\* x cut to 4 decimals instead of rounded to them
trunc4(x) ==
    LET y == RMul(x, Whole(10000))
    IN  { Dec4(y[1] \div y[2]) }

\* the return statement cutting the score to 4 decimals
calculate_new_score_truncated(current_score, log_entry) ==
    trunc4(RMax(Whole(0), RMin(Whole(1), ema_new_score(current_score, log_entry))))

\* the return statement without its clamp
calculate_new_score_unclamped(current_score, log_entry) ==
    round4(ema_new_score(current_score, log_entry))

\* calculate_new_score(current_score, log_entry): the values it can return
calculate_new_score(current_score, log_entry) ==
    round4(RMax(Whole(0), RMin(Whole(1), ema_new_score(current_score, log_entry))))

\* an insertion that puts x ahead of the elements with an equal score
RECURSIVE InsertByScoreUnstable(_, _)
InsertByScoreUnstable(sorted, x) ==
    IF sorted = << >> THEN << x >>
    ELSE IF RLe(Head(sorted).score, x.score)
         THEN << x >> \o sorted
         ELSE << Head(sorted) >> \o InsertByScoreUnstable(Tail(sorted), x)

\* sorted(..., key=score, reverse=True) is stable: x goes behind every
\* element whose score is >= its own
RECURSIVE InsertByScore(_, _)
InsertByScore(sorted, x) ==
    IF sorted = << >> THEN << x >>
    ELSE IF RLt(Head(sorted).score, x.score)
         THEN << x >> \o sorted
         ELSE << Head(sorted) >> \o InsertByScore(Tail(sorted), x)

RECURSIVE sorted_by_score(_)
sorted_by_score(list) ==
    IF list = << >> THEN << >>
    ELSE InsertByScore(sorted_by_score(SubSeq(list, 1, Len(list) - 1)), list[Len(list)])

\* the loop of discover_servers over the first i catalog entries: the table
\* after the get_reputation calls and the candidates appended so far
RECURSIVE DiscoverLoop(_, _, _, _)
DiscoverLoop(reps, i, tool_type, t) ==
    IF i = 0 THEN [table |-> reps, available_servers |-> << >>]
    ELSE LET before == DiscoverLoop(reps, i - 1, tool_type, t)
             s_id == CatalogOrder[i]
             data == CATALOG[s_id]
         IN  IF data.tool_type = tool_type
             THEN [table |-> get_reputation_table(before.table, s_id, t),
                   available_servers |->
                       Append(before.available_servers,
                              [server_id |-> s_id,
                               score |-> get_reputation_value(before.table, s_id, t),
                               cost |-> data.cost_per_unit,
                               tool_type |-> tool_type])]
             ELSE before

\* discover_servers(tool_type): [table, candidates]
discover_servers(reps, tool_type, t) ==
    LET loop == DiscoverLoop(reps, Len(CatalogOrder), tool_type, t)
    IN  [table |-> loop.table, candidates |-> sorted_by_score(loop.available_servers)]

(***************************************************************************)
(* datastore.py                                                            *)
(***************************************************************************)
\* update_server_score(server_id, new_score, count) on data st at clock t
update_server_score(st, server_id, new_score, count, t) ==
    [ k \in DOMAIN st \cup {server_id} |->
        IF k = server_id
        THEN [score |-> CHOOSE v \in round4(new_score) : TRUE,
              last_update |-> t, interaction_count |-> count]
        ELSE st[k] ]

\* submit_feedback storing the interaction count it read, not incremented
submit_feedback_same_count(reps, st, log_entry, t) ==
    LET server_id == log_entry.server_id
        current_score == get_reputation_value(reps, server_id, t)
        after_read == get_reputation_table(reps, server_id, t)
    IN  IF server_id \notin DOMAIN after_read
        THEN { [table |-> after_read, data |-> st, raised |-> "KeyError"] }
        ELSE LET count == after_read[server_id].interaction_count
             IN  { [table |-> [after_read EXCEPT ![server_id] =
                                  [score |-> new_score, last_update |-> t,
                                   interaction_count |-> count]],
                    data |-> update_server_score(st, server_id, new_score, count, t),
                    raised |-> None] :
                   new_score \in calculate_new_score(current_score, log_entry) }

\* submit_feedback(log_entry): the outcomes it can have, each the table and
\* store it leaves and the exception, if any, that leaves it
submit_feedback(reps, st, log_entry, t) ==
    LET server_id == log_entry.server_id
        current_score == get_reputation_value(reps, server_id, t)
        after_read == get_reputation_table(reps, server_id, t)
    IN  IF server_id \notin DOMAIN after_read
        THEN \* self.reputations[server_id] raises KeyError
             { [table |-> after_read, data |-> st, raised |-> "KeyError"] }
        ELSE LET count == after_read[server_id].interaction_count + 1
             IN  { [table |-> [after_read EXCEPT ![server_id] =
                                  [score |-> new_score, last_update |-> t,
                                   interaction_count |-> count]],
                    data |-> update_server_score(st, server_id, new_score, count, t),
                    raised |-> None] :
                   new_score \in calculate_new_score(current_score, log_entry) }

\* _initialize_reputations() over persisted data st at clock current_time
_initialize_reputations(st, current_time) ==
    LET loaded ==
            [ s_id \in CatalogIds |->
                IF s_id \in DOMAIN st
                THEN [score |-> st[s_id].score,
                      last_update |-> st[s_id].last_update,
                      interaction_count |-> st[s_id].interaction_count]
                ELSE [score |-> DEFAULT_INITIAL_SCORE,
                      last_update |-> current_time,
                      interaction_count |-> 0] ]
    IN  [loaded EXCEPT !["compute_server_1"].score = Dec4(8500),
                       !["data_server_2"].score = Dec4(9500),
                       !["image_fast_4"].score = Dec4(8800),
                       !["image_cheap_5"].score = Dec4(6500),
                       !["semantic_db_6"].score = Dec4(9200)]

(***************************************************************************)
(* mcp.py                                                                  *)
(***************************************************************************)
\* _determine_satisfaction(outcome, latency, server_confidence): the values
\* it can return
_determine_satisfaction(outcome, latency, server_confidence) ==
    LET latency_penalty == RMin(Dec4(5000), RMul(latency, Dec4(15000)))
        confidence_bonus == RMul(server_confidence, Dec4(1000))
        satisfaction ==
            IF outcome = "SUCCESS"
            THEN RMax(Dec4(2000), RAdd(RSub(Whole(1), latency_penalty), confidence_bonus))
            ELSE Dec4(1000)
    IN  round4(satisfaction)

\* _create_log_entry(server_id, request, response): the entries it can
\* build, with the fields the engine reads
_create_log_entry(server_id, response) ==
    { [server_id |-> server_id,
       outcome_status |-> response.status,
       latency_sec |-> response.latency,
       client_satisfaction |-> satisfaction,
       server_confidence |-> response.server_confidence] :
      satisfaction \in _determine_satisfaction(response.status, response.latency,
                                                response.server_confidence) }

\* the filter with a strict comparison
RECURSIVE selectable_servers_strict(_)
selectable_servers_strict(candidates) ==
    IF candidates = << >> THEN << >>
    ELSE IF RLt(MIN_REPUTATION_THRESHOLD, Head(candidates).score)
         THEN << Head(candidates) >> \o selectable_servers_strict(Tail(candidates))
         ELSE selectable_servers_strict(Tail(candidates))

\* the candidates with score >= MIN_REPUTATION_THRESHOLD, in order
RECURSIVE selectable_servers(_)
selectable_servers(candidates) ==
    IF candidates = << >> THEN << >>
    ELSE IF RLe(MIN_REPUTATION_THRESHOLD, Head(candidates).score)
         THEN << Head(candidates) >> \o selectable_servers(Tail(candidates))
         ELSE selectable_servers(Tail(candidates))

\* a selection that falls back on the best candidate when none passes
_select_best_server_probe(candidates) ==
    IF candidates = << >> THEN None
    ELSE IF selectable_servers(candidates) = << >> THEN candidates[1].server_id
         ELSE selectable_servers(candidates)[1].server_id

\* _select_best_server after discovery: the chosen server id, or None
_select_best_server(candidates) ==
    IF candidates = << >> THEN None
    ELSE IF selectable_servers(candidates) = << >> THEN None
         ELSE selectable_servers(candidates)[1].server_id

(***************************************************************************)
(* Bounds and the inputs the environment supplies.                         *)
(***************************************************************************)
\* the clock runs for at most MaxTicks half-lives
MaxTicks == 2

\* at most MaxFeedback feedback submissions are applied in one run
MaxFeedback == 1

\* Servers of different capabilities share no state: discovery, routing and
\* the market average of a capability read only the servers offering it.  A
\* run therefore calls on the servers of one capability (and on an id that
\* is not registered), and starts from a store that holds records of these
\* servers only; every capability has its runs.
FocusIds(tool_type) ==
    { s \in CatalogIds : CATALOG[s].tool_type = tool_type } \cup {UnknownId}

\* contents of the trust store file found at start-up: none; records left
\* by an earlier process (one of them two half-lives old); a record that
\* ties low_score_server_3 with compute_server_1
PersistedStores ==
    { << >>,
      [ s \in {"low_score_server_3", "compute_server_1"} |->
          IF s = "low_score_server_3"
          THEN [score |-> Dec4(7000), last_update |-> 0, interaction_count |-> 4]
          ELSE [score |-> Dec4(6000), last_update |-> 0 - 2 * half_life_seconds,
                interaction_count |-> 2] ],
      [ s \in {"low_score_server_3"} |->
          [score |-> Dec4(8500), last_update |-> 0, interaction_count |-> 1] ] }

\* transactions handed to submit_feedback directly: in-range ones and
\* adversarial ones (negative latency, satisfaction above 1 or below 0)
FeedbackInputs ==
    { [outcome_status |-> "SUCCESS", latency_sec |-> Dec4(4000), client_satisfaction |-> Dec4(8000)],
      [outcome_status |-> "SUCCESS", latency_sec |-> Whole(-8),  client_satisfaction |-> Dec4(15000)],
      [outcome_status |-> "TIMEOUT", latency_sec |-> Whole(10),  client_satisfaction |-> Dec4(-5000)] }

\* MCP_Server.execute_tool: an ERROR with confidence 0.2, or a SUCCESS with a
\* confidence drawn from [0.75, 0.99]; latency is abs(gauss(...)) >= 0
Responses ==
    { [status |-> "ERROR",   latency |-> Dec4(3000),  server_confidence |-> Dec4(2000)],
      [status |-> "SUCCESS", latency |-> Whole(0),    server_confidence |-> Dec4(9900)],
      [status |-> "SUCCESS", latency |-> Dec4(15000), server_confidence |-> Dec4(7500)] }

RECURSIVE SumSubmitted(_, _)
SumSubmitted(f, i) == IF i = 0 THEN 0 ELSE f[CatalogOrder[i]] + SumSubmitted(f, i - 1)

TotalSubmitted == SumSubmitted(submitted, Len(CatalogOrder))

NoValue == << >>

Call(op) ==
    [op |-> op, server_id |-> None, tool_type |-> None, ret |-> NoValue,
     raised |-> None, candidates |-> << >>, selected |-> None,
     executed |-> FALSE, log_entry |-> << >>, args |-> << >>]

\* the client threads that call the service
Clients == {"client_a", "client_b"}

\* a client that is not inside submit_feedback
Idle ==
    [pc |-> "idle", log_entry |-> << >>, current_score |-> NoValue,
     count |-> 0, new_score |-> NoValue]

\* the attributes of RepScoreConfig that the scoring reads
RepScoreConfig ==
    [WEIGHT_SATISFACTION |-> WEIGHT_SATISFACTION,
     WEIGHT_RELIABILITY |-> WEIGHT_RELIABILITY,
     WEIGHT_LATENCY_PENALTY |-> WEIGHT_LATENCY_PENALTY,
     WEIGHT_COST_EFFICIENCY |-> WEIGHT_COST_EFFICIENCY,
     COST_BENCHMARK |-> COST_BENCHMARK]

(***************************************************************************)
(* Specification.                                                          *)
(***************************************************************************)
\* RepScoreService.__init__ over one of the persisted stores
Init ==
    /\ now = 0
    /\ store \in PersistedStores
    /\ focus \in ToolType
    /\ DOMAIN store \subseteq FocusIds(focus)
    /\ reputations = _initialize_reputations(store, now)
    /\ initial = reputations
    /\ submitted = [s \in CatalogIds |-> 0]
    /\ last = Call("init")
    /\ clients = [c \in Clients |-> Idle]
    /\ config = RepScoreConfig

\* k half-lives pass with no call
Tick(k) ==
    /\ now' = now + k * half_life_seconds
    /\ last' = Call("tick")
    /\ UNCHANGED << reputations, store, initial, submitted, focus, clients, config >>

GetReputation(server_id) ==
    /\ reputations' = get_reputation_table(reputations, server_id, now)
    /\ last' = [Call("get_reputation") EXCEPT
                    !.server_id = server_id,
                    !.ret = get_reputation_value(reputations, server_id, now)]
    /\ UNCHANGED << store, now, initial, submitted, focus, clients, config >>

DiscoverServers(tool_type) ==
    \E d \in {discover_servers(reputations, tool_type, now)} :
        /\ reputations' = d.table
        /\ last' = [Call("discover_servers") EXCEPT
                        !.tool_type = tool_type,
                        !.candidates = d.candidates]
        /\ UNCHANGED << store, now, initial, submitted, focus, clients, config >>

\* the log entry of a transaction fb reported for server_id
FeedbackEntry(server_id, fb) ==
    [server_id |-> server_id,
     outcome_status |-> fb.outcome_status,
     latency_sec |-> fb.latency_sec,
     client_satisfaction |-> fb.client_satisfaction,
     server_confidence |-> Whole(1)]

\* RepScoreService.submit_feedback(log_entry), called directly
SubmitFeedback(server_id, fb) ==
    \E log_entry \in {FeedbackEntry(server_id, fb)} :
    \E r \in submit_feedback(reputations, store, log_entry, now) :
        /\ reputations' = r.table
        /\ store' = r.data
        /\ submitted' = IF r.raised = None
                        THEN [submitted EXCEPT ![server_id] = @ + 1]
                        ELSE submitted
        /\ last' = [Call("submit_feedback") EXCEPT
                        !.server_id = server_id,
                        !.raised = r.raised,
                        !.log_entry = << log_entry >>]
        /\ UNCHANGED << now, initial, focus, clients, config >>

\* MCP_Client.execute_task(task_description, tool_type), the selected
\* server answering with response
ExecuteTask(tool_type, response) ==
    \E d \in {discover_servers(reputations, tool_type, now)} :
    \E server_id \in {_select_best_server(d.candidates)} :
        IF server_id = None
        THEN /\ reputations' = d.table
             /\ last' = [Call("execute_task") EXCEPT
                             !.tool_type = tool_type,
                             !.candidates = d.candidates]
             /\ UNCHANGED << store, now, initial, submitted, focus, clients, config >>
        ELSE \E log_entry \in _create_log_entry(server_id, response) :
             \E r \in submit_feedback(d.table, store, log_entry, now) :
                /\ reputations' = r.table
                /\ store' = r.data
                /\ submitted' = IF r.raised = None
                                THEN [submitted EXCEPT ![server_id] = @ + 1]
                                ELSE submitted
                /\ last' = [Call("execute_task") EXCEPT
                                !.tool_type = tool_type,
                                !.candidates = d.candidates,
                                !.selected = server_id,
                                !.server_id = server_id,
                                !.executed = TRUE,
                                !.raised = r.raised,
                                !.log_entry = << log_entry >>]
                /\ UNCHANGED << now, initial, focus, clients, config >>

\* the guards bound the clock and the number of submissions of a run
Next ==
    \/ \E k \in 1..MaxTicks :
          /\ now + k * half_life_seconds <= MaxTicks * half_life_seconds
          /\ Tick(k)
    \/ \E server_id \in FocusIds(focus) : GetReputation(server_id)
    \/ DiscoverServers(focus)
    \/ \E server_id \in FocusIds(focus), fb \in FeedbackInputs :
          /\ TotalSubmitted < MaxFeedback
          /\ SubmitFeedback(server_id, fb)
    \/ \E response \in Responses :
          /\ TotalSubmitted < MaxFeedback
          /\ ExecuteTask(focus, response)

Spec == Init /\ [][Next]_vars

(***************************************************************************)
(* Properties.                                                             *)
(***************************************************************************)
InUnit(x) == RLe(Whole(0), x) /\ RLe(x, Whole(1))

Registered(tool_type) == { s \in CatalogIds : CATALOG[s].tool_type = tool_type }

CatalogIndex(s) == CHOOSE i \in 1..Len(CatalogOrder) : CatalogOrder[i] = s

RECURSIVE TwoTo(_)
TwoTo(k) == IF k = 0 THEN 1 ELSE 2 * TwoTo(k - 1)

\* C1: every stored score is in [0,1] after any sequence of reads,
\* discoveries and feedback, in range or not; every value calculate_new_score
\* returns is stored by submit_feedback as it is returned, and every value a
\* read reports is in [0,1] too.
C1_ScoresClamped ==
    /\ \A s \in DOMAIN reputations : InUnit(reputations[s].score)
    /\ last.op \in {"submit_feedback", "execute_task"} /\ last.raised = None /\ last.log_entry # << >>
          => InUnit(reputations[last.server_id].score)
    /\ last.op = "get_reputation" => InUnit(last.ret)

\* a transaction with negative latency and satisfaction above 1 has been
\* applied and the upper clamp has acted
C1_Witness ==
    /\ last.op = "submit_feedback"
    /\ last.raised = None
    /\ RLt(last.log_entry[1].latency_sec, Whole(0))
    /\ RLt(Whole(1), last.log_entry[1].client_satisfaction)
    /\ reputations[last.server_id].score = Whole(1)

\* C2: submit_feedback for an id that is not registered returns normally and
\* leaves every ReputationState as it was, creating no entry.
C2_UnknownFeedbackSilent ==
    [][ (last'.op = "submit_feedback" /\ last'.server_id \notin CatalogIds)
          => /\ last'.raised = None
             /\ reputations' = reputations ]_vars

\* the indices of the candidates at or above the threshold
Eligible(c) == { i \in 1..Len(c) : RLe(MIN_REPUTATION_THRESHOLD, c[i].score) }

C3_WitnessBlocked ==
    /\ last.op = "execute_task"
    /\ ~last.executed
    /\ last.candidates # << >>

\* baseline + (s - baseline) * 0.5^k
PulledToBaseline(s, k) ==
    RAdd(DEFAULT_INITIAL_SCORE,
         RMul(RSub(s, DEFAULT_INITIAL_SCORE), Norm(1, TwoTo(k))))

\* x lies strictly between a and b
StrictlyBetween(x, a, b) == (RLt(a, x) /\ RLt(x, b)) \/ (RLt(b, x) /\ RLt(x, a))

\* C4: for every stored score s, above, at or below the baseline, and every
\* elapsed time of k >= 1 half-lives, the decay step returns
\* baseline + (s - baseline) * 0.5^k: strictly between s and the baseline
\* when s is not the baseline, and closer to the baseline the larger k is.
C4_DecayPullsFromEitherSide ==
    \A id \in DOMAIN reputations, k \in 1..MaxTicks :
        LET s == reputations[id].score
            t0 == reputations[id].last_update
            decayed == _apply_decay(s, t0, t0 + k * half_life_seconds)
            later == _apply_decay(s, t0, t0 + (k + 1) * half_life_seconds)
        IN  /\ decayed = PulledToBaseline(s, k)
            /\ s # DEFAULT_INITIAL_SCORE =>
                  /\ StrictlyBetween(decayed, s, DEFAULT_INITIAL_SCORE)
                  /\ StrictlyBetween(later, decayed, DEFAULT_INITIAL_SCORE)

\* the time since id's last update, in whole half-lives (0 when it is not a
\* positive whole number of them)
HalfLivesSince(id) ==
    LET elapsed == now - reputations[id].last_update
    IN  IF elapsed >= 1 /\ elapsed % half_life_seconds = 0
        THEN elapsed \div half_life_seconds
        ELSE 0

\* C5: a read of a registered server whose score s is at or above the
\* baseline, k >= 1 half-lives after its last update, returns
\* baseline + (s - baseline) / 2^k and leaves that value stored; 0.95 read
\* after one half-life gives 0.725 within 0.005.
C5_HalfLifeExact ==
    [][ \A id \in CatalogIds :
          ( /\ last'.op = "get_reputation"
            /\ last'.server_id = id
            /\ RLe(DEFAULT_INITIAL_SCORE, reputations[id].score)
            /\ HalfLivesSince(id) >= 1 )
          => /\ last'.ret = PulledToBaseline(reputations[id].score, HalfLivesSince(id))
             /\ reputations'[id].score = last'.ret
             /\ (reputations[id].score = Dec4(9500) /\ HalfLivesSince(id) = 1)
                   => RLe(RAbs(RSub(last'.ret, Dec4(7250))), Dec4(50)) ]_vars

\* data_server_2 was read one half-life after start-up: 0.95 became 0.725
C5_Witness ==
    /\ last.op = "get_reputation"
    /\ last.server_id = "data_server_2"
    /\ now = half_life_seconds
    /\ initial["data_server_2"].score = Dec4(9500)
    /\ last.ret = Dec4(7250)
    /\ reputations["data_server_2"].score = Dec4(7250)

\* a read two half-lives after the last update quartered the distance
C5_WitnessTwo ==
    /\ last.op = "get_reputation"
    /\ last.server_id = "data_server_2"
    /\ now = 2 * half_life_seconds
    /\ last.ret = Dec4(6125)
    /\ reputations["data_server_2"].score = Dec4(6125)

\* C6: a read of a registered server never changes interaction_count nor any
\* other server; it rewrites score and last_update only when the decayed
\* value is strictly lower than the stored score, and then the stored score is
\* the returned value and last_update the read time, so that a read straight
\* after it returns the same value and changes nothing.  Less than one second
\* after last_update the read returns the stored score and changes nothing.
C6_ReadFrame ==
    [][ \A id \in CatalogIds :
          (last'.op = "get_reputation" /\ last'.server_id = id) =>
             /\ reputations'[id].interaction_count = reputations[id].interaction_count
             /\ \A o \in CatalogIds \ {id} : reputations'[o] = reputations[o]
             /\ DOMAIN reputations' = DOMAIN reputations
             /\ store' = store
             /\ IF RLt(last'.ret, reputations[id].score)
                THEN /\ reputations'[id].score = last'.ret
                     /\ reputations'[id].last_update = now
                     /\ get_reputation_value(reputations', id, now) = last'.ret
                     /\ get_reputation_table(reputations', id, now) = reputations'
                ELSE reputations'[id] = reputations[id]
             /\ now - reputations[id].last_update < 1 =>
                   /\ last'.ret = reputations[id].score
                   /\ reputations' = reputations ]_vars

\* a read some time after start-up lowered the stored score of a server and
\* stamped it with the read time
C6_Witness ==
    /\ last.op = "get_reputation"
    /\ last.server_id \in CatalogIds
    /\ now > 0
    /\ reputations[last.server_id].last_update = now
    /\ reputations[last.server_id].score = last.ret
    /\ RLt(last.ret, initial[last.server_id].score)
    /\ submitted[last.server_id] = 0

\* a read that changed nothing although time had passed: the score was
\* already at the baseline
C6_WitnessUnchanged ==
    /\ last.op = "get_reputation"
    /\ last.server_id = "low_score_server_3"
    /\ now > 0
    /\ reputations["low_score_server_3"] = initial["low_score_server_3"]
    /\ reputations["low_score_server_3"].last_update = 0

\* C7: a read of an id that is not in the table returns 0.50, raises nothing
\* and leaves the table as it was; the ids in the table are the catalog ids
\* in every state.
C7_UnknownRead ==
    [][ /\ DOMAIN reputations = CatalogIds
        /\ DOMAIN reputations' = CatalogIds
        /\ (last'.op = "get_reputation" /\ last'.server_id \notin CatalogIds) =>
              /\ last'.ret = DEFAULT_INITIAL_SCORE
              /\ last'.raised = None
              /\ reputations' = reputations ]_vars

\* an unregistered id was read after feedback had been applied
C7_Witness ==
    /\ last.op = "get_reputation"
    /\ last.server_id = UnknownId
    /\ last.ret = DEFAULT_INITIAL_SCORE
    /\ TotalSubmitted > 0
    /\ DOMAIN reputations = CatalogIds

\* C8: a completed submit_feedback for a registered server stores
\* calculate_new_score(get_reputation(server), transaction), stamps
\* last_update with the current time and adds exactly 1 to interaction_count,
\* leaving every other server alone; interaction_count is never negative,
\* never decreases, and is its initial value plus the submissions completed
\* for the server.
C8_FeedbackFrame ==
    [][ /\ \A id \in CatalogIds :
              ( /\ last'.op \in {"submit_feedback", "execute_task"}
                /\ last'.log_entry # << >>
                /\ last'.server_id = id
                /\ last'.raised = None )
              => /\ reputations'[id].score \in
                       calculate_new_score(get_reputation_value(reputations, id, now),
                                           last'.log_entry[1])
                 /\ reputations'[id].last_update = now
                 /\ reputations'[id].interaction_count = reputations[id].interaction_count + 1
                 /\ last'.op = "submit_feedback" =>
                       \A o \in CatalogIds \ {id} : reputations'[o] = reputations[o]
        /\ \A s \in CatalogIds :
              /\ reputations[s].interaction_count >= 0
              /\ reputations'[s].interaction_count >= reputations[s].interaction_count
              /\ reputations'[s].interaction_count =
                    initial[s].interaction_count + submitted'[s] ]_vars

\* feedback was applied to a server that came out of the store with 4
\* interactions
C8_Witness ==
    /\ last.op = "submit_feedback"
    /\ last.raised = None
    /\ initial[last.server_id].interaction_count = 4
    /\ reputations[last.server_id].interaction_count = 5
    /\ reputations[last.server_id].last_update = now

\* C9: discovery returns exactly one candidate per catalog server offering
\* the capability and no other, ordered by non-increasing score with equal
\* scores in catalog order; a capability no server offers gives the empty
\* list and no error.
C9_DiscoveryOrder ==
    last.op \in {"discover_servers", "execute_task"} =>
        LET c == last.candidates
        IN  /\ { c[i].server_id : i \in 1..Len(c) } = Registered(last.tool_type)
            /\ Len(c) = Cardinality(Registered(last.tool_type))
            /\ \A i \in 1..Len(c) :
                  /\ c[i].tool_type = last.tool_type
                  /\ c[i].cost = CATALOG[c[i].server_id].cost_per_unit
            /\ \A i, j \in 1..Len(c) :
                  i < j =>
                     /\ RLe(c[j].score, c[i].score)
                     /\ c[i].score = c[j].score =>
                           CatalogIndex(c[i].server_id) < CatalogIndex(c[j].server_id)
            /\ last.tool_type = "REASONING" => (c = << >> /\ last.raised = None)

\* discovery returned two candidates with the same score
C9_Witness ==
    /\ last.op = "discover_servers"
    /\ Len(last.candidates) = 2
    /\ last.candidates[1].score = last.candidates[2].score

\* discovery put a later catalog entry ahead of an earlier one
C9_WitnessReordered ==
    /\ last.op = "discover_servers"
    /\ Len(last.candidates) = 2
    /\ CatalogIndex(last.candidates[1].server_id) > CatalogIndex(last.candidates[2].server_id)

\* discovery for a capability no server offers
C9_WitnessEmpty ==
    /\ last.op = "discover_servers"
    /\ last.tool_type = "REASONING"
    /\ last.candidates = << >>

\* clamp(lo, hi, x)
Clamp(lo, hi, x) == RMax(lo, RMin(hi, x))

\* C10: the satisfaction derived from an outcome is in [0,1]: 0.1 for every
\* status other than SUCCESS, and for SUCCESS
\* 1.0 - min(0.5, 1.5 * latency) + 0.1 * confidence clamped to [0.2, 1.0].
C10_SatisfactionRange ==
    (last.op = "execute_task" /\ last.executed) =>
        LET e == last.log_entry[1]
            expected ==
                IF e.outcome_status = "SUCCESS"
                THEN Clamp(Dec4(2000), Whole(1),
                           RAdd(RSub(Whole(1), RMin(Dec4(5000), RMul(Dec4(15000), e.latency_sec))),
                                RMul(Dec4(1000), e.server_confidence)))
                ELSE Dec4(1000)
        IN  /\ InUnit(e.client_satisfaction)
            /\ e.client_satisfaction \in round4(expected)

(***************************************************************************)
(* Two client threads inside submit_feedback.  The method takes no lock,   *)
(* so a thread switch can fall between any two of its statements; each     *)
(* statement of repservice.py:165-180 is one step of the calling client.   *)
(***************************************************************************)
\* a client calls submit_feedback(log_entry): line 165
SubmitCall(c, server_id, fb) ==
    /\ clients[c].pc = "idle"
    /\ clients' = [clients EXCEPT ![c] =
                      [Idle EXCEPT !.pc = "168",
                                   !.log_entry = << FeedbackEntry(server_id, fb) >>]]
    /\ UNCHANGED << reputations, store, now, last, initial, submitted, focus, config >>

\* line 168: current_score = self.get_reputation(server_id)
SubmitGetReputation(c) ==
    /\ clients[c].pc = "168"
    /\ \E server_id \in {clients[c].log_entry[1].server_id} :
          /\ reputations' = get_reputation_table(reputations, server_id, now)
          /\ clients' = [clients EXCEPT
                            ![c].pc = "169",
                            ![c].current_score =
                                get_reputation_value(reputations, server_id, now)]
    /\ UNCHANGED << store, now, last, initial, submitted, focus, config >>

\* line 169: count = self.reputations[server_id].get('interaction_count', 0) + 1
SubmitReadCount(c) ==
    /\ clients[c].pc = "169"
    /\ clients' = [clients EXCEPT
                      ![c].pc = "172",
                      ![c].count =
                          reputations[clients[c].log_entry[1].server_id].interaction_count + 1]
    /\ UNCHANGED << reputations, store, now, last, initial, submitted, focus, config >>

\* line 172: new_score = self.calculate_new_score(current_score, log_entry)
SubmitCompute(c) ==
    /\ clients[c].pc = "172"
    /\ \E new_score \in calculate_new_score(clients[c].current_score, clients[c].log_entry[1]) :
          clients' = [clients EXCEPT ![c].pc = "175", ![c].new_score = new_score]
    /\ UNCHANGED << reputations, store, now, last, initial, submitted, focus, config >>

\* line 175: self.reputations[server_id]['score'] = new_score
SubmitWriteScore(c) ==
    /\ clients[c].pc = "175"
    /\ reputations' = [reputations EXCEPT
                          ![clients[c].log_entry[1].server_id].score = clients[c].new_score]
    /\ clients' = [clients EXCEPT ![c].pc = "176"]
    /\ UNCHANGED << store, now, last, initial, submitted, focus, config >>

\* line 176: self.reputations[server_id]['last_update'] = time.time()
SubmitWriteTime(c) ==
    /\ clients[c].pc = "176"
    /\ reputations' = [reputations EXCEPT
                          ![clients[c].log_entry[1].server_id].last_update = now]
    /\ clients' = [clients EXCEPT ![c].pc = "177"]
    /\ UNCHANGED << store, now, last, initial, submitted, focus, config >>

\* line 177: self.reputations[server_id]['interaction_count'] = count
SubmitWriteCount(c) ==
    /\ clients[c].pc = "177"
    /\ reputations' = [reputations EXCEPT
                          ![clients[c].log_entry[1].server_id].interaction_count = clients[c].count]
    /\ clients' = [clients EXCEPT ![c].pc = "180"]
    /\ UNCHANGED << store, now, last, initial, submitted, focus, config >>

\* line 180: self.store.update_server_score(server_id, new_score, count),
\* and the call returns
SubmitPersist(c) ==
    /\ clients[c].pc = "180"
    /\ \E server_id \in {clients[c].log_entry[1].server_id} :
          /\ store' = update_server_score(store, server_id, clients[c].new_score,
                                          clients[c].count, now)
          /\ submitted' = [submitted EXCEPT ![server_id] = @ + 1]
    /\ clients' = [clients EXCEPT ![c].pc = "done"]
    /\ UNCHANGED << reputations, now, last, initial, focus, config >>

\* the registered servers of the run's capability
FocusServers == FocusIds(focus) \ {UnknownId}

\* each client calls submit_feedback once, for a registered server: a client
\* whose call has returned is "done" and calls no more
NextConcurrent ==
    \E c \in Clients :
        \/ \E server_id \in FocusServers, fb \in FeedbackInputs :
              SubmitCall(c, server_id, fb)
        \/ SubmitGetReputation(c)
        \/ SubmitReadCount(c)
        \/ SubmitCompute(c)
        \/ SubmitWriteScore(c)
        \/ SubmitWriteTime(c)
        \/ SubmitWriteCount(c)
        \/ SubmitPersist(c)

SpecConcurrent == Init /\ [][NextConcurrent]_vars

\* the scores two submit_feedback calls leave for server_id when the call
\* with entry e1 runs to its end before the call with entry e2 begins
SerialScores(server_id, e1, e2) ==
    { r2.table[server_id].score :
        r2 \in UNION { submit_feedback(r1.table, r1.data, e2, now) :
                          r1 \in submit_feedback(initial, store, e1, now) } }

\* C11: two clients submitting feedback for the same registered server
\* concurrently are never interleaved inside the read-modify-write: once
\* both calls have returned, interaction_count has grown by exactly 2 and
\* the stored score is the one that the two updates give when applied one
\* after the other, in one of the two orders.
C11_NoLostUpdate ==
    (/\ clients["client_a"].pc = "done"
     /\ clients["client_b"].pc = "done"
     /\ clients["client_a"].log_entry[1].server_id = clients["client_b"].log_entry[1].server_id)
    => LET ea == clients["client_a"].log_entry[1]
           eb == clients["client_b"].log_entry[1]
           id == ea.server_id
       IN  /\ reputations[id].interaction_count = initial[id].interaction_count + 2
           /\ reputations[id].score \in SerialScores(id, ea, eb) \cup SerialScores(id, eb, ea)

(***************************************************************************)
(* One caller submitting the same transaction for the same server again    *)
(* and again, with no time passing between the calls.                      *)
(***************************************************************************)
\* the caller makes at most MaxResubmit submissions
MaxResubmit == 100

\* the transactions of FeedbackInputs whose latency is a duration
RepeatedInputs == { fb \in FeedbackInputs : RLe(Whole(0), fb.latency_sec) }

\* a fresh process: no trust store file, every last_update is the start time
InitFresh == Init /\ store = << >>

\* a fresh process whose caller has a server to report on
InitResubmit == InitFresh /\ FocusServers # {}

\* submit_feedback(log_entry) with the log_entry of the previous call
Resubmit(server_id, fb) ==
    /\ last.op = "init" \/ last.log_entry = << FeedbackEntry(server_id, fb) >>
    /\ submitted[server_id] < MaxResubmit
    /\ SubmitFeedback(server_id, fb)

NextResubmit ==
    \E server_id \in FocusServers, fb \in RepeatedInputs : Resubmit(server_id, fb)

\* a submission completes: the count of completed calls of one server of
\* the run grows by one.  It is possible exactly when NextResubmit is.
Submission ==
    \E server_id \in FocusServers :
        /\ last.op = "init" \/ last.server_id = server_id
        /\ submitted[server_id] < MaxResubmit
        /\ submitted' = [submitted EXCEPT ![server_id] = @ + 1]

\* the caller keeps submitting: while a submission is possible, one is
\* eventually made
SpecResubmit ==
    /\ InitResubmit
    /\ [][NextResubmit]_vars
    /\ WF_submitted(Submission)

\* the weighted composite score WCS of a transaction: line 161 is
\* ALPHA * WCS + (1 - ALPHA) * current_score, which is ALPHA * WCS at 0
WeightedComposite(log_entry) ==
    RDiv(ema_new_score(Whole(0), log_entry), ALPHA_SMOOTHING)

\* |score - w|
Distance(score, w) == RAbs(RSub(score, w))

\* the server of the run is within 0.0005 of the composite of its transaction
NearComposite ==
    /\ last.op = "submit_feedback"
    /\ RLe(Distance(reputations[last.server_id].score,
                    WeightedComposite(last.log_entry[1])),
           Norm(5, 10000))

\* C12: with no decay between the updates, resubmitting one transaction
\* (composite w) never moves the score away from w, never carries it past w
\* by more than the rounding step 0.0001, and after finitely many
\* submissions the score is within 0.0005 of w and stays there.
C12_EmaConverges ==
    /\ [][ last'.op = "submit_feedback" =>
             LET id == last'.server_id
                 w == WeightedComposite(last'.log_entry[1])
                 before == reputations[id].score
                 after == reputations'[id].score
             IN  /\ RLe(Distance(after, w), Distance(before, w))
                 /\ \/ RLe(before, w) /\ RLe(after, RAdd(w, Dec4(1)))
                    \/ RLe(w, before) /\ RLe(RSub(w, Dec4(1)), after) ]_vars
    /\ <>[]NearComposite

\* the score has climbed from the baseline to the composite 0.82 of a
\* successful transaction and has stayed there while submissions went on
C12_Witness ==
    /\ last.op = "submit_feedback"
    /\ last.server_id = "low_score_server_3"
    /\ initial["low_score_server_3"].score = DEFAULT_INITIAL_SCORE
    /\ WeightedComposite(last.log_entry[1]) = Dec4(8200)
    /\ NearComposite
    /\ submitted["low_score_server_3"] = MaxResubmit

\* the score has come down from 0.85 to the composite of a timed-out
\* transaction
C12_WitnessFromAbove ==
    /\ last.op = "submit_feedback"
    /\ last.server_id = "compute_server_1"
    /\ last.log_entry[1].outcome_status = "TIMEOUT"
    /\ NearComposite

(***************************************************************************)
(* The cost factor of calculate_new_score on its own: applied to the       *)
(* catalog's servers, and to unit prices and market averages a catalog     *)
(* could declare.                                                          *)
(***************************************************************************)
\* declared unit costs: those of the catalog, the averages of its tool
\* types, and prices at and beyond twice an average
UnitPrices ==
    { CATALOG[s].cost_per_unit : s \in CatalogIds }
        \cup { _get_avg_cost_for_tool(t) : t \in ToolType }
        \cup { Norm(1, 10000), Norm(55, 10000), Norm(58, 1000), Norm(1, 10) }

\* lines 143-148 with a unit price and a market average
CostFactor(actual_unit_price, avg_market_unit_price) ==
    /\ last' = [Call("cost_factor") EXCEPT
                    !.args = << actual_unit_price, avg_market_unit_price >>,
                    !.ret = cost_factor_of(actual_unit_price, avg_market_unit_price)]
    /\ UNCHANGED << reputations, store, now, initial, submitted, focus, clients, config >>

\* lines 134-148 for a server of the catalog
CostFactorOfServer(server_id) ==
    /\ \E tool_type \in {CATALOG[server_id].tool_type} :
          last' = [Call("cost_factor") EXCEPT
                      !.server_id = server_id,
                      !.tool_type = tool_type,
                      !.args = << CATALOG[server_id].cost_per_unit,
                                  _get_avg_cost_for_tool(tool_type) >>,
                      !.ret = cost_factor_of(CATALOG[server_id].cost_per_unit,
                                             _get_avg_cost_for_tool(tool_type))]
    /\ UNCHANGED << reputations, store, now, initial, submitted, focus, clients, config >>

NextCostFactor ==
    \/ \E actual_unit_price \in UnitPrices, avg_market_unit_price \in UnitPrices :
          CostFactor(actual_unit_price, avg_market_unit_price)
    \/ \E server_id \in CatalogIds : CostFactorOfServer(server_id)

SpecCostFactor == Init /\ [][NextCostFactor]_vars

\* the declared unit costs of order[1..n] added up
RECURSIVE SumOfCosts(_, _)
SumOfCosts(order, n) ==
    IF n = 0 THEN Whole(0)
    ELSE RAdd(SumOfCosts(order, n - 1), CATALOG[order[n]].cost_per_unit)

\* max(0, 1 - (cost - mean) / mean)
OveragePenalty(cost, mean) ==
    RMax(Whole(0), RSub(Whole(1), RDiv(RSub(cost, mean), mean)))

\* C13: the cost factor is 1.0 for a unit cost at or below the mean of the
\* capability and max(0, 1 - (cost - mean)/mean) above it, which is 0 from
\* twice the mean on; at cost = mean both branches give 1.0; the factor is
\* always in [0,1]; a catalog server is held against the mean of the catalog
\* servers of its capability.
C13_CostFactor ==
    last.op = "cost_factor" =>
        LET cost == last.args[1]
            mean == last.args[2]
        IN  /\ RLe(cost, mean) => last.ret = Whole(1)
            /\ RLt(mean, cost) => last.ret = OveragePenalty(cost, mean)
            /\ RLe(RMul(Whole(2), mean), cost) => last.ret = Whole(0)
            /\ cost = mean => OveragePenalty(cost, mean) = Whole(1)
            /\ InUnit(last.ret)
            /\ last.server_id # None =>
                  /\ cost = CATALOG[last.server_id].cost_per_unit
                  /\ LET same == Registered(CATALOG[last.server_id].tool_type)
                     IN  \E order \in [1..Cardinality(same) -> same] :
                            /\ \A i, j \in DOMAIN order : i # j => order[i] # order[j]
                            /\ mean = RDiv(SumOfCosts(order, Cardinality(same)),
                                           Whole(Cardinality(same)))

\* a price beyond twice the market average: the penalty is floored at 0
C13_Witness ==
    /\ last.op = "cost_factor"
    /\ RLt(RMul(Whole(2), last.args[2]), last.args[1])
    /\ last.ret = Whole(0)

\* a price exactly at the market average
C13_WitnessAtMean ==
    /\ last.op = "cost_factor"
    /\ last.args[1] = last.args[2]
    /\ last.ret = Whole(1)

\* compute_server_1, at 0.005 against the MATH_COMPUTE average 0.00275
C13_WitnessCatalog ==
    /\ last.op = "cost_factor"
    /\ last.server_id = "compute_server_1"
    /\ last.args = << Dec4(50), Norm(275, 100000) >>
    /\ last.ret = Norm(2, 11)

(***************************************************************************)
(* Startup under a configuration other than the shipped one.               *)
(* RepScoreService.__init__ builds the store, copies the catalog and       *)
(* initialises the table; it reads no weight and no cost benchmark.  The   *)
(* operations of this specification are the ones that read neither.        *)
(***************************************************************************)
\* RepScoreConfig as shipped, with weights that sum to 0.9 and to 1.1, and
\* with a cost benchmark of 0 and below 0
Configurations ==
    { RepScoreConfig,
      [RepScoreConfig EXCEPT !.WEIGHT_COST_EFFICIENCY = Whole(0)],
      [RepScoreConfig EXCEPT !.WEIGHT_SATISFACTION = Dec4(5000)],
      [RepScoreConfig EXCEPT !.COST_BENCHMARK = Whole(0)],
      [RepScoreConfig EXCEPT !.COST_BENCHMARK = RSub(Whole(0), Dec3(5))] }

\* RepScoreService() under a configuration of Configurations
InitStartup ==
    /\ now = 0
    /\ store \in PersistedStores
    /\ focus \in ToolType
    /\ DOMAIN store \subseteq FocusIds(focus)
    /\ config \in Configurations
    /\ reputations = _initialize_reputations(store, now)
    /\ initial = reputations
    /\ submitted = [s \in CatalogIds |-> 0]
    /\ last = Call("init")
    /\ clients = [c \in Clients |-> Idle]

NextStartup ==
    \/ \E k \in 1..MaxTicks :
          /\ now + k * half_life_seconds <= MaxTicks * half_life_seconds
          /\ Tick(k)
    \/ \E server_id \in FocusIds(focus) : GetReputation(server_id)
    \/ DiscoverServers(focus)

SpecStartup == InitStartup /\ [][NextStartup]_vars

\* the four factor weights add up to 1.0
WeightsSumToOne(cfg) ==
    RAdd(RAdd(RAdd(cfg.WEIGHT_SATISFACTION, cfg.WEIGHT_RELIABILITY),
              cfg.WEIGHT_LATENCY_PENALTY),
         cfg.WEIGHT_COST_EFFICIENCY) = Whole(1)

ValidConfiguration(cfg) ==
    /\ WeightsSumToOne(cfg)
    /\ RLt(Whole(0), cfg.COST_BENCHMARK)

\* C14: the shipped weights sum to 1.0 and startup succeeds with them; under
\* weights that do not sum to 1.0, or a cost benchmark that is not positive,
\* construction fails with a configuration error and no discovery, read or
\* feedback operation runs.
C14_StartupValidation ==
    /\ ValidConfiguration(RepScoreConfig)
    /\ ValidConfiguration(config) => last.raised # "ConfigurationError"
    /\ ~ValidConfiguration(config) =>
          /\ last.op = "init"
          /\ last.raised = "ConfigurationError"

\* a discovery answered by a service constructed under weights summing to 1.1
C14_DiscoveryUnderBadWeights ==
    /\ ~WeightsSumToOne(config)
    /\ last.op = "discover_servers"
    /\ last.raised = None
    /\ Len(last.candidates) > 0

(***************************************************************************)
(* One process in which feedback reaches the engine only through           *)
(* MCP_Client.execute_task: time passes, scores are read, servers are      *)
(* discovered and tasks are run.                                           *)
(***************************************************************************)
\* at most MaxTaskFeedback tasks of a run are executed (blocked tasks are
\* not counted)
MaxTaskFeedback == 3

NextTasks ==
    \/ \E k \in 1..MaxTicks :
          /\ now + k * half_life_seconds <= MaxTicks * half_life_seconds
          /\ Tick(k)
    \/ \E server_id \in FocusIds(focus) : GetReputation(server_id)
    \/ DiscoverServers(focus)
    \/ \E response \in Responses :
          /\ ExecuteTask(focus, response)
          /\ SumSubmitted(submitted', Len(CatalogOrder)) <= MaxTaskFeedback

SpecTasks == Init /\ [][NextTasks]_vars

\* the score a read of server_id would report now
LiveScore(server_id) == get_reputation_value(reputations, server_id, now)

BelowThreshold(server_id) == RLt(LiveScore(server_id), MIN_REPUTATION_THRESHOLD)

\* the score a read of server_id would report after the step
LiveScoreAfter(server_id) == get_reputation_value(reputations', server_id, now')

\* C15: when feedback comes only from execute_task, a server whose live
\* score is below MIN_REPUTATION_THRESHOLD is not selected by the next
\* operation, is reported below the threshold by it, and is still below the
\* threshold after it, whatever the operation and however much time passes;
\* so it is never selected and never reaches the threshold again.
C15_ThresholdGate ==
    [][ \A server_id \in FocusServers :
            BelowThreshold(server_id) =>
                /\ RLt(LiveScoreAfter(server_id), MIN_REPUTATION_THRESHOLD)
                /\ last'.selected # server_id
                /\ (last'.op = "get_reputation" /\ last'.server_id = server_id)
                       => RLt(last'.ret, MIN_REPUTATION_THRESHOLD)
                /\ \A i \in DOMAIN last'.candidates :
                       last'.candidates[i].server_id = server_id
                           => RLt(last'.candidates[i].score, MIN_REPUTATION_THRESHOLD)
                /\ submitted'[server_id] = submitted[server_id] ]_vars

\* a task is refused after the failures of executed tasks took the only
\* eligible server below the threshold
C15_Witness ==
    /\ last.op = "execute_task"
    /\ ~last.executed
    /\ last.selected = None
    /\ \E server_id \in FocusServers :
          /\ submitted[server_id] > 0
          /\ BelowThreshold(server_id)

\* a server taken below the threshold by decay alone is refused
C15_WitnessDecay ==
    /\ last.op = "execute_task"
    /\ ~last.executed
    /\ TotalSubmitted = 0
    /\ now > 0
    /\ \E server_id \in FocusServers :
          RLe(MIN_REPUTATION_THRESHOLD, initial[server_id].score)

(***************************************************************************)
(* A run of tasks in which every execution fails: execute_tool answers     *)
(* ERROR with confidence 0.2, after a latency abs(gauss(avg_latency,       *)
(* 0.05)).  A refused task changes nothing, so a run ends in a state where *)
(* every further task is refused.                                          *)
(***************************************************************************)
\* failed executions: at no latency, at the catalog's 0.3, at the 0.75 of
\* the deterioration test, and at MAX_ACCEPTABLE_LATENCY
FailingResponses ==
    { [status |-> "ERROR", latency |-> l, server_confidence |-> Dec4(2000)] :
      l \in { Whole(0), Dec4(3000), Dec4(7500), MAX_ACCEPTABLE_LATENCY } }

NextFailing ==
    \E response \in FailingResponses : ExecuteTask(focus, response)

SpecFailing == Init /\ [][NextFailing]_vars

\* no server of the capability is at or above the threshold
AllBelowThreshold == \A server_id \in FocusServers : BelowThreshold(server_id)

\* compute_server_1 starts at 0.85 and low_score_server_3 at 0.50
FreshMathRun ==
    /\ focus = "MATH_COMPUTE"
    /\ initial["compute_server_1"].score = Dec4(8500)
    /\ initial["low_score_server_3"].score = DEFAULT_INITIAL_SCORE

\* C16: in a run where every execution fails, each feedback strictly lowers
\* the score of the server it is about; once no server of the capability is
\* at or above the threshold a task is refused, with no execution and no
\* feedback; and with compute_server_1 at 0.85 and low_score_server_3 at
\* 0.50 the block has occurred by the third MATH_COMPUTE task, so
\* compute_server_1 executes at most two tasks.
C16_FailingRunBlocks ==
    [][ /\ last'.executed =>
              /\ RLe(MIN_REPUTATION_THRESHOLD, LiveScore(last'.selected))
              /\ RLt(reputations'[last'.selected].score,
                     reputations[last'.selected].score)
        /\ AllBelowThreshold =>
              /\ ~last'.executed
              /\ last'.selected = None
              /\ submitted' = submitted
              /\ store' = store
        /\ FreshMathRun => submitted'["compute_server_1"] <= 2 ]_vars

\* the same with the block by the fourth task: compute_server_1 executes at
\* most three tasks
C16_BlockByFourthTask ==
    [][ /\ last'.executed =>
              /\ RLe(MIN_REPUTATION_THRESHOLD, LiveScore(last'.selected))
              /\ RLt(reputations'[last'.selected].score,
                     reputations[last'.selected].score)
        /\ AllBelowThreshold =>
              /\ ~last'.executed
              /\ last'.selected = None
              /\ submitted' = submitted
              /\ store' = store
        /\ FreshMathRun => submitted'["compute_server_1"] <= 3 ]_vars

\* the third task of a fresh MATH_COMPUTE run was executed by
\* compute_server_1
C16_ThirdTaskExecuted ==
    /\ FreshMathRun
    /\ last.op = "execute_task"
    /\ last.executed
    /\ last.selected = "compute_server_1"
    /\ submitted["compute_server_1"] = 3

\* the third task of a fresh MATH_COMPUTE run was refused (two failures at
\* MAX_ACCEPTABLE_LATENCY)
C16_ThirdTaskBlocked ==
    /\ FreshMathRun
    /\ last.op = "execute_task"
    /\ ~last.executed
    /\ submitted["compute_server_1"] = 2

(***************************************************************************)
(* The score a read reports against the score the table holds.             *)
(***************************************************************************)
\* the (server, score) pairs the last call reported for registered servers
Reported ==
    IF last.op = "get_reputation" /\ last.server_id \in DOMAIN reputations
    THEN { << last.server_id, last.ret >> }
    ELSE IF last.op = "discover_servers"
         THEN { << last.candidates[i].server_id, last.candidates[i].score >> :
                i \in DOMAIN last.candidates }
         ELSE {}

\* C17: immediately after get_reputation or discover_servers returns, the
\* score reported for each registered server equals the score stored for
\* it, for every stored score and every elapsed time.
C17_ReportedIsStored ==
    \A r \in Reported : r[2] = reputations[r[1]].score

\* C17 as it holds: the reported score equals the stored score when the
\* stored score is at or above the baseline 0.50 or less than a second has
\* passed since its last update; for a stored score below the baseline and
\* a second or more passed, the reported score is 0.50 and the stored score
\* is not the reported one.  In every case the reported score is the
\* current score a submit_feedback at this instant blends into the EMA.
C17_ReportedIsStoredAboveBaseline ==
    \A r \in Reported :
        LET stored == reputations[r[1]]
            time_elapsed == now - stored.last_update
        IN  /\ RLe(DEFAULT_INITIAL_SCORE, stored.score) => r[2] = stored.score
            /\ time_elapsed < 1 => r[2] = stored.score
            /\ (RLt(stored.score, DEFAULT_INITIAL_SCORE) /\ time_elapsed >= 1)
                   => /\ r[2] = DEFAULT_INITIAL_SCORE
                      /\ r[2] # stored.score
            /\ r[2] = get_reputation_value(reputations, r[1], now)

\* a read of a score above the baseline after time has passed: the decayed
\* score is reported and stored
C17_Witness ==
    /\ last.op \in {"get_reputation", "discover_servers"}
    /\ \E r \in Reported :
          /\ RLt(DEFAULT_INITIAL_SCORE, r[2])
          /\ RLt(r[2], initial[r[1]].score)
          /\ submitted[r[1]] = 0
          /\ reputations[r[1]].score = r[2]

\* a read of a score below the baseline after time has passed: 0.50 is
\* reported, the stored score stays
C17_WitnessBelowBaseline ==
    /\ last.op \in {"get_reputation", "discover_servers"}
    /\ \E r \in Reported :
          /\ RLt(reputations[r[1]].score, DEFAULT_INITIAL_SCORE)
          /\ now - reputations[r[1]].last_update >= 1
          /\ r[2] = DEFAULT_INITIAL_SCORE

(***************************************************************************)
(* Restart: the process ends and a new RepScoreService is constructed over *)
(* the trust store file the old one left.  The run starts with no file, so *)
(* every record found at a restart was written by submit_feedback.         *)
(* submitted keeps counting the submissions of the whole run.              *)
(***************************************************************************)
\* RepScoreService() in a new process: RepDataStore() loads the file,
\* _initialize_reputations() builds the table
Restart ==
    /\ reputations' = _initialize_reputations(store, now)
    /\ initial' = reputations'
    /\ last' = Call("restart")
    /\ clients' = [c \in Clients |-> Idle]
    /\ UNCHANGED << store, now, submitted, focus, config >>

NextRestart ==
    \/ Next
    \/ Restart

SpecRestart == InitFresh /\ [][NextRestart]_vars

\* C18: right after a restart, every catalog server with a persisted record
\* has the persisted score and the persisted interaction count in memory.
C18_RestartRoundTrip ==
    last.op = "restart" =>
        \A s_id \in DOMAIN store \cap CatalogIds :
            /\ reputations[s_id].score = store[s_id].score
            /\ reputations[s_id].interaction_count = store[s_id].interaction_count

\* what does survive a restart: the interaction count and the time of the
\* last update of every persisted server, and the score of a server that
\* _initialize_reputations gives no custom starting score
C18_CountsSurviveRestart ==
    last.op = "restart" =>
        \A s_id \in DOMAIN store \cap CatalogIds :
            /\ reputations[s_id].interaction_count = store[s_id].interaction_count
            /\ reputations[s_id].last_update = store[s_id].last_update
            /\ s_id = "low_score_server_3" => reputations[s_id].score = store[s_id].score

\* a restart after a feedback for compute_server_1 was persisted: the table
\* holds the custom starting score 0.85, not the persisted score
C18_ScoreLostAtRestart ==
    /\ last.op = "restart"
    /\ "compute_server_1" \in DOMAIN store
    /\ store["compute_server_1"].score # Dec4(8500)
    /\ reputations["compute_server_1"].score = Dec4(8500)
    /\ reputations["compute_server_1"].interaction_count = 1

====
